---- MODULE Spec2Model ----
(***************************************************************************)
(* A model of iconmaker.py: the interactive driver (main), the bundle      *)
(* batch loop (recolor_app_icons), the bundle icon locator                 *)
(* (pull_app_icon), the canvas normaliser (resize_and_center_512) and the  *)
(* per-pixel recolouring functions.                                        *)
(*                                                                         *)
(* Python strings are sequences of one-character strings.  A cancelled     *)
(* dialog (None) and an empty answer ("") are both the empty sequence: the *)
(* code only tests them for truth or for membership in a set of non-empty  *)
(* strings.                                                                *)
(***************************************************************************)
EXTENDS Integers, Sequences

VARIABLES
    pc,               \* position of main: the prompt or loop it is at
    approach_choice,  \* main: answer to "Choose Approach"
    sub_choice,       \* main: answer to "Choose Recolor Approach"
    target_hex,       \* main: primary colour descriptor
    darker_hex,       \* main: secondary colour descriptor (policy 2)
    blend_mode,       \* main: blend mode (policy 3)
    sat_mult,         \* main: saturation multiplier, a rational <<n, d>>
    val_mult,         \* main: value multiplier, a rational <<n, d>>
    image_paths,      \* main: the selected image files
    app_paths,        \* main: the selected bundles
    output_dir,       \* main: the chosen output directory
    results,          \* one tag per loop iteration begun, in order
    open_calls,       \* the paths Image.open was called on, in order
    writes,           \* the <<input path, output path>> of each save that succeeded
    log,              \* what was printed or shown, in order
    arg,              \* the argument of the function studied on its own
    ret               \* what that function returned

vars == <<pc, approach_choice, sub_choice, target_hex, darker_hex, blend_mode,
          sat_mult, val_mult, image_paths, app_paths, output_dir, results,
          open_calls, writes, log, arg, ret>>

(***************************************************************************)
(* Bounds of the model.                                                    *)
(***************************************************************************)
MaxItems == 2    \* longest file selection
MaxDim == 50     \* image sides 1..MaxDim are enumerated, plus a few named sizes
Edge == 1        \* channel values within Edge of 0 and of 255 are enumerated

(***************************************************************************)
(* Strings.                                                                *)
(***************************************************************************)
Min2(a, b) == IF a <= b THEN a ELSE b
Max2(a, b) == IF a >= b THEN a ELSE b

UpperAlpha == <<"A","B","C","D","E","F","G","H","I","J","K","L","M",
                "N","O","P","Q","R","S","T","U","V","W","X","Y","Z">>
LowerAlpha == <<"a","b","c","d","e","f","g","h","i","j","k","l","m",
                "n","o","p","q","r","s","t","u","v","w","x","y","z">>

\* str.lower() on one character
LowerChar(c) ==
    IF \E i \in 1..Len(UpperAlpha) : UpperAlpha[i] = c
    THEN LowerAlpha[CHOOSE i \in 1..Len(UpperAlpha) : UpperAlpha[i] = c]
    ELSE c

\* str.lower()
Lower(s) == [i \in 1..Len(s) |-> LowerChar(s[i])]

\* str.endswith(suf)
EndsWith(s, suf) ==
    /\ Len(s) >= Len(suf)
    /\ SubSeq(s, Len(s) - Len(suf) + 1, Len(s)) = suf

\* s[a:b] for 0 <= a <= b: a slice past the end is cut short, never an error
Slice(s, a, b) == SubSeq(s, a + 1, Min2(b, Len(s)))

\* s.rfind(c) as a 1-based index, 0 when c does not occur
RFind(s, c) ==
    IF \E i \in 1..Len(s) : s[i] = c
    THEN CHOOSE i \in 1..Len(s) : s[i] = c /\ \A j \in (i+1)..Len(s) : s[j] # c
    ELSE 0

DotIcns == <<".","i","c","n","s">>
DotApp == <<".","a","p","p">>

HexDigits == <<"0","1","2","3","4","5","6","7","8","9","a","b","c","d","e","f">>
HexDigitsUpper == <<"0","1","2","3","4","5","6","7","8","9","A","B","C","D","E","F">>

IsHexChar(c) == \E i \in 1..Len(HexDigits) : HexDigits[i] = LowerChar(c)
HexVal(c) == (CHOOSE i \in 1..Len(HexDigits) : HexDigits[i] = LowerChar(c)) - 1

\* int(s, 16) for s of at most two characters: [ok |-> FALSE] is ValueError.
\* (Signs, blanks and underscores, which int() also reads, are not in the
\* alphabet of the descriptors enumerated here.)
HexInt(s) ==
    IF Len(s) = 0 \/ \E i \in 1..Len(s) : ~IsHexChar(s[i])
    THEN [ok |-> FALSE, val |-> 0]
    ELSE IF Len(s) = 1
         THEN [ok |-> TRUE, val |-> HexVal(s[1])]
         ELSE [ok |-> TRUE, val |-> 16 * HexVal(s[1]) + HexVal(s[2])]

\* the three int(target_hex[i : i + 2], 16) of hue_shift_saturation and of the
\* darker-colour derivation: [ok |-> FALSE] when any of them raises ValueError
ParseHexTriple(hex) ==
    LET r == HexInt(Slice(hex, 1, 3))
        g == HexInt(Slice(hex, 3, 5))
        b == HexInt(Slice(hex, 5, 7))
    IN  IF r.ok /\ g.ok /\ b.ok
        THEN [ok |-> TRUE, rgb |-> <<r.val, g.val, b.val>>]
        ELSE [ok |-> FALSE, rgb |-> <<0, 0, 0>>]

\* f"{v:02X}"
Hex02(v) == <<HexDigitsUpper[(v \div 16) + 1], HexDigitsUpper[(v % 16) + 1]>>

\* os.path.join(a, b): an absolute b discards a
Join2(a, b) ==
    IF Len(b) > 0 /\ b[1] = "/" THEN b
    ELSE IF Len(a) = 0 \/ a[Len(a)] = "/" THEN a \o b
    ELSE a \o <<"/">> \o b

\* os.path.basename(p)
Basename(p) == SubSeq(p, RFind(p, "/") + 1, Len(p))

\* os.path.splitext(p)[0]: the extension starts at the last dot of the last
\* component, unless only dots precede it there
SplitextRoot(p) ==
    LET sep == RFind(p, "/")
        dot == RFind(p, ".")
    IN  IF dot > sep /\ \E k \in (sep + 1)..(dot - 1) : p[k] # "."
        THEN SubSeq(p, 1, dot - 1)
        ELSE p

(***************************************************************************)
(* Colour descriptors as the imaging library reads them (ImageColor.getrgb,*)
(* reached from ImageOps.colorize and Image.new): "#" followed by 3, 4, 6  *)
(* or 8 hex digits.  Colour names and functional notations are not in the  *)
(* alphabet of the descriptors enumerated here.                            *)
(***************************************************************************)
AllHex(s) == \A i \in 1..Len(s) : IsHexChar(s[i])

LibraryReadsColor(hex) ==
    /\ Len(hex) \in {4, 5, 7, 9}
    /\ hex[1] = "#"
    /\ AllHex(Tail(hex))

\* ImageColor.getcolor(hex, "RGBA") for a descriptor the library reads
LibraryColor(hex) ==
    LET d == [i \in 1..(Len(hex) - 1) |-> HexVal(hex[i + 1])]
    IN  IF Len(hex) = 4 THEN <<17 * d[1], 17 * d[2], 17 * d[3], 255>>
        ELSE IF Len(hex) = 5 THEN <<17 * d[1], 17 * d[2], 17 * d[3], 17 * d[4]>>
        ELSE IF Len(hex) = 7
             THEN <<16 * d[1] + d[2], 16 * d[3] + d[4], 16 * d[5] + d[6], 255>>
        ELSE <<16 * d[1] + d[2], 16 * d[3] + d[4], 16 * d[5] + d[6], 16 * d[7] + d[8]>>

(***************************************************************************)
(* Images.  A buffer is a size, a box <<x, y, w, h>> inside it, the pixel  *)
(* every position of the box holds and the pixel every other position      *)
(* holds.  A solid image is one whose box is the whole buffer.  A pixel is *)
(* <<r, g, b, a>>, each channel in 0..255.                                 *)
(***************************************************************************)
CanvasSide == 512

Transparent == <<0, 0, 0, 0>>

FullBox(size) == <<0, 0, size[1], size[2]>>

Solid(size, px) == [size |-> size, box |-> FullBox(size), inner |-> px, outer |-> px]

IsSolid(img) == img.box = FullBox(img.size)

\* a buffer in which no position lies outside the box has no outer pixel
Buffer(size, box, inner, outer) ==
    IF box = FullBox(size) THEN Solid(size, inner)
    ELSE [size |-> size, box |-> box, inner |-> inner, outer |-> outer]

MapPixels(img, F(_)) ==
    IF IsSolid(img) THEN Solid(img.size, F(img.inner))
    ELSE Buffer(img.size, img.box, F(img.inner), F(img.outer))

(***************************************************************************)
(* resize_and_center_512.                                                  *)
(***************************************************************************)
\* The pairs <<a, b>>, a <= b, of sides up to 64 and of the named sizes for
\* which the IEEE-754 double a * (512.0 / b) lands just below the integer
\* 512 * a / b, so that int() gives one less than the exact quotient.
RoundsBelow == {<<49, 49>>}

\* int(a * (512.0 / b)) for 1 <= a <= b
ScaleDim(a, b) ==
    IF <<a, b>> \in RoundsBelow THEN (CanvasSide * a) \div b - 1
    ELSE (CanvasSide * a) \div b

\* lines 107-112: <<new_w, new_h>>
NewSize(w, h) ==
    IF w > h THEN <<CanvasSide, ScaleDim(h, w)>>
    ELSE <<ScaleDim(w, h), CanvasSide>>

\* lines 121-122: <<x, y>>
PasteOffset(new) == <<(CanvasSide - new[1]) \div 2, (CanvasSide - new[2]) \div 2>>

\* Image.resize: an unchanged size is a copy; otherwise a solid image is
\* resampled to a solid image of the new size.  (Boxed buffers are only ever
\* 512 x 512 here, which the scale leaves at 512 x 512.)
Resize(img, new) ==
    IF new = img.size THEN img ELSE Solid(new, img.inner)

\* Paste.c, paste with an RGBA mask: out = DIV255(out * (255 - mask) + in * mask)
\* on each of the four channels, DIV255(a) = ((a + 128) >> 8) + (a + 128)) >> 8
Div255(a) == (((a + 128) \div 256) + (a + 128)) \div 256

Blend(mask, out, in) == Div255(out * (255 - mask) + in * mask)

\* a pixel of the pasted image over a pixel of the transparent canvas, the
\* pasted pixel's own alpha being the mask
PastePixel(px) == [c \in 1..4 |-> Blend(px[4], Transparent[c], px[c])]

\* [ok |-> FALSE]: Image.resize raised ValueError (a side below 1)
resize_and_center_512(image) ==
    LET new == NewSize(image.size[1], image.size[2])
        off == PasteOffset(new)
    IN  IF new[1] < 1 \/ new[2] < 1
        THEN [ok |-> FALSE, img |-> image, new |-> new, off |-> off]
        ELSE LET resized == Resize(image, new)
                 canvas ==
                     IF IsSolid(resized)
                     THEN Buffer(<<CanvasSide, CanvasSide>>,
                                 <<off[1], off[2], new[1], new[2]>>,
                                 PastePixel(resized.inner), Transparent)
                     ELSE Buffer(<<CanvasSide, CanvasSide>>, resized.box,
                                 PastePixel(resized.inner), PastePixel(resized.outer))
             IN  [ok |-> TRUE, img |-> canvas, new |-> new, off |-> off]

(***************************************************************************)
(* overlay_blend.                                                          *)
(***************************************************************************)
Clip(v) == IF v < 0 THEN 0 ELSE IF v > 255 THEN 255 ELSE v

\* Chops.c: every channel, alpha included
ChopMultiply(a, b) == Clip((a * b) \div 255)
ChopScreen(a, b) == Clip(255 - ((255 - a) * (255 - b)) \div 255)

BlendPixel(px, layer, mode) ==
    [c \in 1..4 |-> IF mode = <<"m","u","l","t","i","p","l","y">>
                    THEN ChopMultiply(px[c], layer[c])
                    ELSE ChopScreen(px[c], layer[c])]

\* [ok |-> FALSE]: Image.new raised ValueError on the colour descriptor
overlay_blend(image, overlay_hex, mode) ==
    IF ~LibraryReadsColor(overlay_hex) THEN [ok |-> FALSE, img |-> image]
    ELSE LET layer == LibraryColor(overlay_hex)
             F(px) == BlendPixel(px, layer, mode)
         IN  [ok |-> TRUE, img |-> MapPixels(image, F)]

(***************************************************************************)
(* grayscale_colorize.                                                     *)
(***************************************************************************)
\* ImageOps.grayscale: the ITU-R 601-2 luma of convert("L")
Luma(px) == (px[1] * 19595 + px[2] * 38470 + px[3] * 7471 + 32768) \div 65536

\* ImageOps.colorize with blackpoint 0 and whitepoint 255: 255 ramp entries
\* and one entry of the white colour
Ramp(i, black, white) ==
    IF i >= 255 THEN white ELSE black + (i * (white - black)) \div 255

ColorizePixel(px, black, white) ==
    <<Ramp(Luma(px), black[1], white[1]), Ramp(Luma(px), black[2], white[2]),
      Ramp(Luma(px), black[3], white[3]), px[4]>>

\* [ok |-> FALSE]: ImageOps.colorize raised ValueError on a colour descriptor
grayscale_colorize(image, target_hex_white, target_hex_black) ==
    IF ~LibraryReadsColor(target_hex_white) \/ ~LibraryReadsColor(target_hex_black)
    THEN [ok |-> FALSE, img |-> image]
    ELSE LET F(px) == ColorizePixel(px, LibraryColor(target_hex_black),
                                    LibraryColor(target_hex_white))
         IN  [ok |-> TRUE, img |-> MapPixels(image, F)]

(***************************************************************************)
(* hue_shift_saturation.  colorsys works on Python floats; the model works *)
(* on the exact rationals, scaled by 255, and lets int() lose one where    *)
(* the exact value is a whole number: the double that stands for it may    *)
(* lie just below it (for a pixel of maximum 5 and minimum 1 the code's    *)
(* int(p * 255) is 0, the exact p * 255 being 1), and then truncation      *)
(* gives one less.  Which whole numbers lose is left open (the bits        *)
(* `lose`), so the model allows every outcome the doubles can produce.     *)
(***************************************************************************)
Max3(t) == Max2(t[1], Max2(t[2], t[3]))
Min3(t) == Min2(t[1], Min2(t[2], t[3]))

\* int(x * 255) for the exact x * 255 = n / d >= 0
Truncate(n, d, lose) ==
    IF lose /\ n % d = 0 /\ n \div d >= 1 THEN n \div d - 1 ELSE n \div d

\* colorsys.rgb_to_hsv, the hue only, as 6 * h = n / d with 0 <= n < 6 * d
Hue6(rgb) ==
    LET maxc == Max3(rgb)
        rangec == maxc - Min3(rgb)
    IN  IF rangec = 0 THEN [n |-> 0, d |-> 1]
        ELSE IF rgb[1] = maxc THEN [n |-> (rgb[2] - rgb[3]) % (6 * rangec), d |-> rangec]
        ELSE IF rgb[2] = maxc THEN [n |-> 2 * rangec + rgb[3] - rgb[1], d |-> rangec]
        ELSE [n |-> 4 * rangec + rgb[1] - rgb[2], d |-> rangec]

\* the slip of forcing full saturation instead of scaling it
ScaledSatFull(rgb, mult) == <<1, 1>>

\* line 42: s = min(s * sat_multiplier, 1.0), as <<n, d>>; s is 0 for a grey pixel
ScaledSat(rgb, mult) ==
    LET maxc == Max3(rgb)
        rangec == maxc - Min3(rgb)
    IN  IF rangec = 0 THEN <<0, 1>>
        ELSE IF rangec * mult[1] >= maxc * mult[2] THEN <<1, 1>>
        ELSE <<rangec * mult[1], maxc * mult[2]>>

\* line 43: v = min(v * val_multiplier, 1.0), times 255, as <<n, d>>
ScaledVal(rgb, mult) ==
    IF Max3(rgb) * mult[1] >= 255 * mult[2] THEN <<255, 1>>
    ELSE <<Max3(rgb) * mult[1], mult[2]>>

\* colorsys.hsv_to_rgb followed by the three int(c * 255) of lines 45-49
HsvToBytes(h6, s, v, lose) ==
    LET i == h6.n \div h6.d
        fn == h6.n % h6.d
        den == v[2] * s[2] * h6.d
        vv == Truncate(v[1], v[2], lose[1])
        pp == Truncate(v[1] * (s[2] - s[1]), v[2] * s[2], lose[2])
        qq == Truncate(v[1] * (s[2] * h6.d - s[1] * fn), den, lose[3])
        tt == Truncate(v[1] * (s[2] * h6.d - s[1] * (h6.d - fn)), den, lose[3])
    IN  IF s[1] = 0 THEN <<vv, vv, vv>>
        ELSE IF i = 0 THEN <<vv, tt, pp>>
        ELSE IF i = 1 THEN <<qq, vv, pp>>
        ELSE IF i = 2 THEN <<pp, vv, tt>>
        ELSE IF i = 3 THEN <<pp, qq, vv>>
        ELSE IF i = 4 THEN <<tt, pp, vv>>
        ELSE <<vv, pp, qq>>

\* lines 38-49 and 52 on one pixel: the alpha channel is put back as it was
HuePixel(px, target_rgb, sat, val, lose) ==
    LET rgb == <<px[1], px[2], px[3]>>
        out == HsvToBytes(Hue6(target_rgb), ScaledSat(rgb, sat), ScaledVal(rgb, val), lose)
    IN  <<out[1], out[2], out[3], px[4]>>

\* [ok |-> FALSE]: int(target_hex[i : i + 2], 16) raised ValueError
hue_shift_saturation(image, hex, sat, val, lose) ==
    LET target == ParseHexTriple(hex)
        F(px) == HuePixel(px, target.rgb, sat, val, lose)
    IN  IF ~target.ok THEN [ok |-> FALSE, img |-> image]
        ELSE [ok |-> TRUE, img |-> MapPixels(image, F)]

(***************************************************************************)
(* pull_app_icon.  The file system is fs: the set fs.files of regular      *)
(* files, what the bundle's Info.plist holds (fs.plist: "malformed",       *)
(* "array" for a root that is no dictionary, "dict") and, in a dictionary, *)
(* the CFBundleIconFile entry (fs.key: "missing", "string", "integer" for  *)
(* a non-zero number; fs.name: the string).                                *)
(***************************************************************************)
Contents == <<"C","o","n","t","e","n","t","s">>
Resources == <<"R","e","s","o","u","r","c","e","s">>
InfoPlist == <<"I","n","f","o",".","p","l","i","s","t">>

\* the slip of comparing the suffix without lower()
EnsureIcnsCaseSensitive(icon_file) ==
    IF ~EndsWith(icon_file, DotIcns) THEN icon_file \o DotIcns ELSE icon_file

\* lines 152-153
EnsureIcns(icon_file) ==
    IF ~EndsWith(Lower(icon_file), DotIcns) THEN icon_file \o DotIcns ELSE icon_file

\* line 155
PossiblePath(app_path, icon_file) ==
    Join2(Join2(Join2(app_path, Contents), Resources), icon_file)

\* kind "path": a path is returned; "none": None is returned; "raise": an
\* exception leaves the function.  probes: the paths os.path.isfile was asked;
\* files: the regular files afterwards (the function writes none).
pull_app_icon(app_path, fs) ==
    LET info_plist_path == Join2(Join2(app_path, Contents), InfoPlist)
        icon_file == EnsureIcns(fs.name)
        possible_path == PossiblePath(app_path, icon_file)
        Out(kind, path, probes) ==
            [kind |-> kind, path |-> path, probes |-> probes, files |-> fs.files]
    IN  IF info_plist_path \notin fs.files THEN Out("none", <<>>, <<info_plist_path>>)
        ELSE IF fs.plist = "malformed" THEN Out("raise", <<>>, <<info_plist_path>>)
        ELSE IF fs.plist = "array" THEN Out("raise", <<>>, <<info_plist_path>>)
        ELSE IF fs.key = "missing" THEN Out("none", <<>>, <<info_plist_path>>)
        ELSE IF fs.key = "integer" THEN Out("raise", <<>>, <<info_plist_path>>)
        ELSE IF fs.name = <<>> THEN Out("none", <<>>, <<info_plist_path>>)
        ELSE IF possible_path \in fs.files
             THEN Out("path", possible_path, <<info_plist_path, possible_path>>)
        ELSE Out("none", <<>>, <<info_plist_path, possible_path>>)

(***************************************************************************)
(* What the user may answer, and what the disk may hold.                   *)
(***************************************************************************)
One == <<"1">>
Two == <<"2">>
Three == <<"3">>
App == <<"a","p","p">>
Screen == <<"s","c","r","e","e","n">>
Multiply == <<"m","u","l","t","i","p","l","y">>

ApproachInputs == {<<>>, One, Two, Three, App, <<"A","P","P">>, <<"x">>}
SubInputs == {<<>>, One, Two, Three, <<"x">>}
HexInputs == {<<>>, <<"#","F","F","0","0","0","0">>, <<"#","F","0","0">>,
              <<"#","G","G","0","0","0","0">>, <<"F","F","0","0","0","0">>}
DarkerInputs == {<<>>, <<"#","8","0","0","0","0","0">>, <<"#","G","G","0","0","0","0">>}
BlendInputs == {<<>>, Screen, Multiply, <<"x">>}
MultInputs == {<<>>, <<"x">>, <<"0",".","5">>}
OutputDirs == {<<>>, <<"/","o">>}

ImagePathChoices == {<<"/","d","/","a",".","p","n","g">>, <<"/","d","/","a",".","j","p","g">>,
                     <<"/","d","/","b",".","p","n","g">>}
AppPathChoices == {<<"/","A","/","F","o","o",".","a","p","p">>,
                   <<"/","B","/","F","o","o",".","A","P","P">>,
                   <<"/","A","/","x",".","p","n","g">>}

\* what a file dialog returns: distinct paths, none when cancelled
Selections(S) ==
    {q \in UNION {[1..n -> S] : n \in 0..MaxItems} :
        \A i, j \in 1..Len(q) : i # j => q[i] # q[j]}

\* Image.open: it raises, or gives an image of some size
ItemSizes == {<<300, 600>>, <<1000, 1>>}
OpenOutcomes == {[ok |-> FALSE, size |-> <<1, 1>>]} \cup {[ok |-> TRUE, size |-> z] : z \in ItemSizes}
SamplePixel == <<255, 0, 0, 255>>

IconNames == {<<>>, <<"I">>, <<"I",".","i","c","n","s">>, <<"I",".","I","C","N","S">>,
              <<"/","I">>}

\* the files a lookup in the bundle can touch
IconFileNames == {<<"I",".","i","c","n","s">>, <<"I",".","I","C","N","S">>,
                  <<"I",".","I","C","N","S",".","i","c","n","s">>,
                  <<"/","I",".","i","c","n","s">>}

BundleFiles(app_path) ==
    {Join2(Join2(app_path, Contents), InfoPlist)}
    \cup {PossiblePath(app_path, n) : n \in IconFileNames}

BundleStates(app_path) ==
    {[files |-> f, plist |-> p, key |-> k, name |-> n] :
        f \in SUBSET BundleFiles(app_path), p \in {"malformed", "array", "dict"},
        k \in {"missing", "string", "integer"}, n \in IconNames}

\* the bundle states the batch loop is run against: no Info.plist, one that
\* does not parse, one naming an icon that is missing, one naming an icon
\* that is there
RunBundleStates(app_path) ==
    LET info == Join2(Join2(app_path, Contents), InfoPlist)
        icns == PossiblePath(app_path, <<"I",".","i","c","n","s">>)
        St(f, p) == [files |-> f, plist |-> p, key |-> "string", name |-> <<"I">>]
    IN  {St({}, "dict"), St({info}, "malformed"), St({info}, "dict"), St({info, icns}, "dict")}

(***************************************************************************)
(* main: the prompts.                                                      *)
(***************************************************************************)
IsDigit(c) == c \in {"0","1","2","3","4","5","6","7","8","9"}
Pow10(n) == IF n = 0 THEN 1 ELSE IF n = 1 THEN 10 ELSE IF n = 2 THEN 100 ELSE 1000
DigitsValue(s) ==
    LET v[i \in 0..Len(s)] == IF i = 0 THEN 0 ELSE 10 * v[i - 1] + HexVal(s[i])
    IN  v[Len(s)]

\* float(s) for plain decimals of up to three places, as <<n, d>>;
\* [ok |-> FALSE] is ValueError
FloatOf(s) ==
    LET dot == RFind(s, ".")
        digits == IF dot = 0 THEN s ELSE SubSeq(s, 1, dot - 1) \o SubSeq(s, dot + 1, Len(s))
        places == IF dot = 0 THEN 0 ELSE Len(s) - dot
    IN  IF Len(digits) = 0 \/ places > 3 \/ \E i \in 1..Len(digits) : ~IsDigit(digits[i])
        THEN [ok |-> FALSE, val |-> <<1, 1>>]
        ELSE [ok |-> TRUE, val |-> <<DigitsValue(digits), Pow10(places)>>]

\* lines 294-301 and 387-394: blank or non-numeric is 1.0
MultOf(s) == IF s = <<>> \/ ~FloatOf(s).ok THEN <<1, 1>> ELSE FloatOf(s).val

\* the slip of leaving the selector unchecked
ValidChoiceAny(c) == TRUE

\* lines 252 and 349
ValidChoice(c) == c \in {One, Two, Three}

\* lines 316-322 and 404-410: [ok |-> FALSE] when int() raises ValueError
DeriveDarker(hex) ==
    LET t == ParseHexTriple(hex)
        d == [c \in 1..3 |-> (t.rgb[c] * 4) \div 5]
    IN  IF ~t.ok THEN [ok |-> FALSE, hex |-> <<>>]
        ELSE [ok |-> TRUE, hex |-> <<"#">> \o Hex02(d[1]) \o Hex02(d[2]) \o Hex02(d[3])]

Say(msg) == log' = Append(log, msg)

AskApproach ==
    /\ pc = "approach"
    /\ \E c \in ApproachInputs :
        /\ approach_choice' = c
        /\ IF c = <<>> THEN Say("No approach chosen. Exiting.") /\ pc' = "done"
           ELSE IF Lower(c) = App THEN log' = log /\ pc' = "app_sub"
           ELSE IF ~ValidChoice(c) THEN Say("Invalid approach selection.") /\ pc' = "done"
           ELSE log' = log /\ pc' = "hex"
    /\ UNCHANGED <<sub_choice, target_hex, darker_hex, blend_mode, sat_mult, val_mult,
                   image_paths, app_paths, output_dir, results, open_calls, writes, arg, ret>>

AskSubChoice ==
    /\ pc = "app_sub"
    /\ \E c \in SubInputs :
        /\ sub_choice' = c
        /\ IF ~ValidChoice(c)
           THEN Say("Invalid sub-choice for recolor. Exiting.") /\ pc' = "done"
           ELSE log' = log /\ pc' = "app_hex"
    /\ UNCHANGED <<approach_choice, target_hex, darker_hex, blend_mode, sat_mult, val_mult,
                   image_paths, app_paths, output_dir, results, open_calls, writes, arg, ret>>

\* lines 257-263 (next = "app_paths") and 354-360 (next = "image_paths")
AskHexThen(next) ==
    /\ \E h \in HexInputs :
        /\ target_hex' = h
        /\ IF h = <<>> THEN Say("No hex code entered. Exiting.") /\ pc' = "done"
           ELSE log' = log /\ pc' = next
    /\ UNCHANGED <<approach_choice, sub_choice, darker_hex, blend_mode, sat_mult, val_mult,
                   image_paths, app_paths, output_dir, results, open_calls, writes, arg, ret>>

AskHexApp == pc = "app_hex" /\ AskHexThen("app_paths")

AskHex == pc = "hex" /\ AskHexThen("image_paths")

AskAppPaths ==
    /\ pc = "app_paths"
    /\ \E q \in Selections(AppPathChoices) :
        /\ app_paths' = q
        /\ IF q = <<>> THEN Say("No .app selected. Exiting.") /\ pc' = "done"
           ELSE log' = log /\ pc' = "app_outdir"
    /\ UNCHANGED <<approach_choice, sub_choice, target_hex, darker_hex, blend_mode, sat_mult,
                   val_mult, image_paths, output_dir, results, open_calls, writes, arg, ret>>

AskOutputDir ==
    /\ pc = "app_outdir"
    /\ \E d \in OutputDirs :
        /\ output_dir' = d
        /\ IF d = <<>> THEN Say("No output directory selected. Exiting.") /\ pc' = "done"
           ELSE log' = log /\ pc' = "app_params"
    /\ UNCHANGED <<approach_choice, sub_choice, target_hex, darker_hex, blend_mode, sat_mult,
                   val_mult, image_paths, app_paths, results, open_calls, writes, arg, ret>>

AskImagePaths ==
    /\ pc = "image_paths"
    /\ \E q \in Selections(ImagePathChoices) :
        /\ image_paths' = q
        /\ IF q = <<>> THEN Say("No image selected. Exiting.") /\ pc' = "done"
           ELSE log' = log /\ pc' = "params"
    /\ UNCHANGED <<approach_choice, sub_choice, target_hex, darker_hex, blend_mode, sat_mult,
                   val_mult, app_paths, output_dir, results, open_calls, writes, arg, ret>>

\* lines 282-337 (the policy is sub_choice) and 375-419 (approach_choice): the
\* prompts of the chosen policy.  An uncaught ValueError ends main.
AskParamsThen(choice, next) ==
    /\ IF choice = One
       THEN \E sat_str \in MultInputs, val_str \in MultInputs :
                /\ sat_mult' = MultOf(sat_str)
                /\ val_mult' = MultOf(val_str)
                /\ pc' = next
                /\ UNCHANGED <<darker_hex, blend_mode>>
       ELSE IF choice = Two
       THEN \E d \in DarkerInputs :
                /\ IF d # <<>> THEN darker_hex' = d /\ pc' = next
                   ELSE IF DeriveDarker(target_hex).ok
                        THEN darker_hex' = DeriveDarker(target_hex).hex /\ pc' = next
                   ELSE darker_hex' = d /\ pc' = "crashed"
                /\ UNCHANGED <<sat_mult, val_mult, blend_mode>>
       ELSE \E m \in BlendInputs :
                /\ blend_mode' = IF m \notin {Screen, Multiply} THEN Screen ELSE m
                /\ pc' = next
                /\ UNCHANGED <<sat_mult, val_mult, darker_hex>>
    /\ UNCHANGED <<approach_choice, sub_choice, target_hex, image_paths, app_paths,
                   output_dir, results, open_calls, writes, log, arg, ret>>

AskParamsApp == pc = "app_params" /\ AskParamsThen(sub_choice, "app_loop")

AskParams == pc = "params" /\ AskParamsThen(approach_choice, "image_loop")

(***************************************************************************)
(* main: the two loops.  One action is one iteration, from the lookup or   *)
(* the open to the save.                                                   *)
(***************************************************************************)
\* lines 432-437, and the closures recolor_func of lines 303-337.  The bits
\* `lose` do not decide whether the call raises.
Recolor(choice, img) ==
    IF choice = One
    THEN hue_shift_saturation(img, target_hex, sat_mult, val_mult, <<FALSE, FALSE, FALSE>>)
    ELSE IF choice = Two THEN grayscale_colorize(img, target_hex, darker_hex)
    ELSE overlay_blend(img, target_hex, blend_mode)

\* lines 422-448: no exception is caught, so any failure ends main
ProcessImage ==
    /\ pc = "image_loop"
    /\ Len(results) < Len(image_paths)
    /\ \E opened \in OpenOutcomes, saved \in BOOLEAN :
        LET path == image_paths[Len(results) + 1]
            out_path == SplitextRoot(path) \o DotIcns
            recolored == Recolor(approach_choice, Solid(opened.size, SamplePixel))
            final_512 == resize_and_center_512(recolored.img)
            tag == IF ~opened.ok THEN "open_error"
                   ELSE IF ~recolored.ok THEN "recolor_error"
                   ELSE IF ~final_512.ok THEN "resize_error"
                   ELSE IF ~saved THEN "save_error"
                   ELSE "ok"
        IN  /\ results' = Append(results, tag)
            /\ open_calls' = Append(open_calls, path)
            /\ writes' = IF tag = "ok" THEN Append(writes, <<path, out_path>>) ELSE writes
            /\ log' = log \o <<"Processing">> \o (IF tag = "ok" THEN <<"Saved">> ELSE <<>>)
            /\ pc' = IF tag = "ok" THEN pc ELSE "crashed"
    /\ UNCHANGED <<approach_choice, sub_choice, target_hex, darker_hex, blend_mode, sat_mult,
                   val_mult, image_paths, app_paths, output_dir, arg, ret>>

\* line 450
MainDone ==
    /\ pc = "image_loop"
    /\ Len(results) = Len(image_paths)
    /\ Say("Done with standard recoloring approach.")
    /\ pc' = "done"
    /\ UNCHANGED <<approach_choice, sub_choice, target_hex, darker_hex, blend_mode, sat_mult,
                   val_mult, image_paths, app_paths, output_dir, results, open_calls, writes,
                   arg, ret>>

\* lines 175-218: one iteration of recolor_app_icons.  The open and the save
\* are inside try blocks; the lookup, the recolouring and the resize are not.
RecolorAppIcon ==
    /\ pc = "app_loop"
    /\ Len(results) < Len(app_paths)
    /\ \E fs \in RunBundleStates(app_paths[Len(results) + 1]),
          opened \in OpenOutcomes, saved \in BOOLEAN :
        LET app_path == app_paths[Len(results) + 1]
            is_app == EndsWith(Lower(app_path), DotApp)
            icon == pull_app_icon(app_path, fs)
            recolored == Recolor(sub_choice, Solid(opened.size, SamplePixel))
            final_512 == resize_and_center_512(recolored.img)
            base_app_name == SplitextRoot(Basename(app_path))
            out_path == Join2(output_dir, base_app_name \o DotIcns)
            tag == IF ~is_app THEN "non_app"
                   ELSE IF icon.kind = "raise" THEN "lookup_error"
                   ELSE IF icon.kind = "none" THEN "no_icon"
                   ELSE IF ~opened.ok THEN "open_error"
                   ELSE IF ~recolored.ok THEN "recolor_error"
                   ELSE IF ~final_512.ok THEN "resize_error"
                   ELSE IF ~saved THEN "save_error"
                   ELSE "ok"
        IN  /\ results' = Append(results, tag)
            /\ open_calls' = IF tag \in {"non_app", "lookup_error", "no_icon"} THEN open_calls
                             ELSE Append(open_calls, icon.path)
            /\ writes' = IF tag = "ok" THEN Append(writes, <<app_path, out_path>>) ELSE writes
            /\ log' = IF tag = "non_app" THEN Append(log, "Skipping non-app")
                      ELSE IF tag = "no_icon" THEN Append(log, "No icon found")
                      ELSE IF tag = "open_error" THEN Append(log, "Could not open icon")
                      ELSE IF tag = "save_error" THEN Append(log, "[Error] Could not save .icns")
                      ELSE IF tag = "ok" THEN Append(log, "[OK] Recolored icon")
                      ELSE log
            /\ pc' = IF tag \in {"lookup_error", "recolor_error", "resize_error"}
                     THEN "crashed" ELSE pc
    /\ UNCHANGED <<approach_choice, sub_choice, target_hex, darker_hex, blend_mode, sat_mult,
                   val_mult, image_paths, app_paths, output_dir, arg, ret>>

\* lines 342-343
AppDone ==
    /\ pc = "app_loop"
    /\ Len(results) = Len(app_paths)
    /\ Say("Done with .app recoloring feature!")
    /\ pc' = "done"
    /\ UNCHANGED <<approach_choice, sub_choice, target_hex, darker_hex, blend_mode, sat_mult,
                   val_mult, image_paths, app_paths, output_dir, results, open_calls, writes,
                   arg, ret>>

RunInit ==
    /\ pc = "approach"
    /\ approach_choice = <<>>
    /\ sub_choice = <<>>
    /\ target_hex = <<>>
    /\ darker_hex = <<>>
    /\ blend_mode = <<>>
    /\ sat_mult = <<1, 1>>
    /\ val_mult = <<1, 1>>
    /\ image_paths = <<>>
    /\ app_paths = <<>>
    /\ output_dir = <<>>
    /\ results = <<>>
    /\ open_calls = <<>>
    /\ writes = <<>>
    /\ log = <<>>

Init == RunInit /\ arg = <<>> /\ ret = <<>>

Next ==
    \/ AskApproach
    \/ AskSubChoice
    \/ AskHexApp
    \/ AskAppPaths
    \/ AskOutputDir
    \/ AskParamsApp
    \/ RecolorAppIcon
    \/ AppDone
    \/ AskHex
    \/ AskImagePaths
    \/ AskParams
    \/ ProcessImage
    \/ MainDone

Spec == Init /\ [][Next]_vars

(***************************************************************************)
(* Properties of main and of recolor_app_icons.                            *)
(***************************************************************************)
ImageMode == approach_choice \in {One, Two, Three}
BundleMode == Lower(approach_choice) = App

\* "#RRGGBB", the leading "#" being optional
WellFormedColor(hex) ==
    LET digits == IF Len(hex) > 0 /\ hex[1] = "#" THEN Tail(hex) ELSE hex
    IN  Len(digits) = 6 /\ AllHex(digits)

MalformedColor(hex) == hex # <<>> /\ ~WellFormedColor(hex)

\* the failures the specification calls per-item and recoverable
PerItemFailures == {"no_icon", "open_error", "save_error"}

\* C1: an item whose icon cannot be resolved, whose image fails to open or
\* whose output fails to be written does not end the run, in either mode: the
\* loop goes on to the items after it.
C1_PerItemFailureDoesNotEndRun ==
    \A i \in 1..Len(results) :
        results[i] \in PerItemFailures => ~(pc = "crashed" /\ i = Len(results))

\* C2: with a primary or secondary colour descriptor that is not empty and is
\* no "#RRGGBB", no image is opened and no output is written, whatever the
\* policy and the mode.
C2_MalformedColorStopsBeforeProcessing ==
    (MalformedColor(target_hex) \/ MalformedColor(darker_hex))
        => (open_calls = <<>> /\ writes = <<>>)

\* every input main requires has been supplied
ConfigComplete ==
    /\ target_hex # <<>>
    /\ \/ ImageMode /\ image_paths # <<>>
       \/ BundleMode /\ sub_choice \in {One, Two, Three} /\ app_paths # <<>>
                     /\ output_dir # <<>>

\* C3: main opens no image, writes no output and does not even reach the
\* policy's prompts or a loop unless a valid selector, a primary colour, a file
\* selection and (in bundle mode) an output directory were all supplied; a run
\* that lacks one has ended with nothing processed.
C3_NoProcessingWithoutConfig ==
    /\ (\/ pc \in {"params", "app_params", "image_loop", "app_loop", "crashed"}
        \/ results # <<>> \/ open_calls # <<>> \/ writes # <<>>) => ConfigComplete
    /\ (pc # "approach" /\ approach_choice = <<>>) => pc = "done"
    /\ (pc \notin {"approach", "app_sub", "app_hex", "hex"} /\ target_hex = <<>>)
           => pc = "done"

\* C3 witness: a bundle run that wrote an output, and so had every input
C3_Witness == BundleMode /\ writes # <<>> /\ pc = "done"

\* C9: after a batch in which every item succeeded, each input has its own
\* output file: no two inputs wrote the same output path.
C9_OneOutputPerInput ==
    (pc = "done" /\ results # <<>> /\ \A i \in 1..Len(results) : results[i] = "ok")
        => /\ Len(writes) = Len(results)
           /\ \A i, j \in 1..Len(writes) : i # j => writes[i][2] # writes[j][2]

(***************************************************************************)
(* The functions on their own: the argument is drawn at the start, one     *)
(* action calls the function.  main does not run (it stays in its initial  *)
(* state, but for pc, which says whether the call was made).               *)
(***************************************************************************)
Idle ==
    /\ approach_choice = <<>>
    /\ sub_choice = <<>>
    /\ target_hex = <<>>
    /\ darker_hex = <<>>
    /\ blend_mode = <<>>
    /\ sat_mult = <<1, 1>>
    /\ val_mult = <<1, 1>>
    /\ image_paths = <<>>
    /\ app_paths = <<>>
    /\ output_dir = <<>>
    /\ results = <<>>
    /\ open_calls = <<>>
    /\ writes = <<>>
    /\ log = <<>>

idleVars == <<approach_choice, sub_choice, target_hex, darker_hex, blend_mode, sat_mult,
              val_mult, image_paths, app_paths, output_dir, results, open_calls, writes, log>>

(***************************************************************************)
(* pull_app_icon on its own.                                               *)
(***************************************************************************)
LocateBundles == {<<"/","A","/","F","o","o",".","a","p","p">>, <<"/","B","/","B","a","r",".","A","P","P">>}

LocateInit ==
    /\ Idle
    /\ pc = "call"
    /\ arg \in UNION {{[app_path |-> a, fs |-> f] : f \in BundleStates(a)} : a \in LocateBundles}
    /\ ret = <<>>

Locate ==
    /\ pc = "call"
    /\ ret' = pull_app_icon(arg.app_path, arg.fs)
    /\ pc' = "returned"
    /\ UNCHANGED <<idleVars, arg>>

LocateNext == Locate

SpecLocate == LocateInit /\ [][LocateNext]_vars

InfoPlistPath == arg.app_path \o <<"/">> \o Contents \o <<"/">> \o InfoPlist
ResourcesDir == arg.app_path \o <<"/">> \o Contents \o <<"/">> \o Resources \o <<"/">>

\* the name with ".icns" appended exactly when it does not end in ".icns",
\* whatever the case of the letters
NameWithSuffix ==
    LET n == arg.fs.name
        tail == IF Len(n) >= 5 THEN SubSeq(n, Len(n) - 4, Len(n)) ELSE <<>>
    IN  IF Len(tail) = 5 /\ tail[1] = "." /\ tail[2] \in {"i", "I"} /\ tail[3] \in {"c", "C"}
           /\ tail[4] \in {"n", "N"} /\ tail[5] \in {"s", "S"}
        THEN n ELSE n \o DotIcns

\* C4: the lookup never raises: it returns a path or None, and None when the
\* descriptor file is absent, when it lacks the CFBundleIconFile key and when
\* the named resource is not on disk.
C4_LookupNeverRaises ==
    pc = "returned" =>
        /\ ret.kind \in {"path", "none"}
        /\ InfoPlistPath \notin arg.fs.files => ret.kind = "none"
        /\ arg.fs.key = "missing" => ret.kind = "none"
        /\ PossiblePath(arg.app_path, NameWithSuffix) \notin arg.fs.files => ret.kind = "none"

Dims == (1..MaxDim) \cup {300, 512, 600, 1000}

\* opaque, partly transparent, fully transparent
NormPixels == {<<255, 0, 0, 255>>, <<200, 100, 50, 128>>, Transparent}

NormInit ==
    /\ Idle
    /\ pc = "call"
    /\ arg \in {Solid(<<w, h>>, px) : w \in Dims, h \in Dims, px \in NormPixels}
    /\ ret = <<>>

Normalize ==
    /\ pc = "call"
    /\ ret' = resize_and_center_512(arg)
    /\ pc' = "returned"
    /\ UNCHANGED <<idleVars, arg>>

Renormalize ==
    /\ pc = "returned"
    /\ ret.ok
    /\ arg' = ret.img
    /\ ret' = resize_and_center_512(ret.img)
    /\ pc' = "renormalized"
    /\ UNCHANGED idleVars

NormNext == Normalize \/ Renormalize

SpecNorm == NormInit /\ [][NormNext]_vars

\* C5: normalising a 512 x 512 buffer, partly transparent pixels included,
\* returns the buffer unchanged in every channel of every pixel, with a scale
\* to 512 x 512 and paste offsets of 0.
C5_NormalizeIsIdempotent ==
    (pc \in {"returned", "renormalized"} /\ arg.size = <<CanvasSide, CanvasSide>>) =>
        /\ ret.ok
        /\ ret.new = <<CanvasSide, CanvasSide>>
        /\ ret.off = <<0, 0>>
        /\ ret.img = arg

\* C7: for every W x H source the resized copy has its larger side 512, both
\* sides at least 1 and the shorter side within one pixel of 512 times the
\* aspect ratio; it is pasted at ((512 - new_w) div 2, (512 - new_h) div 2) on
\* a 512 x 512 canvas, which is returned; 300 x 600 becomes 256 x 512 with 128
\* transparent columns on the left and on the right.
C7_ResizeGeometry ==
    pc = "returned" =>
        LET w == arg.size[1]
            h == arg.size[2]
            new_w == ret.new[1]
            new_h == ret.new[2]
        IN  /\ Max2(new_w, new_h) = CanvasSide
            /\ new_w >= 1 /\ new_h >= 1
            /\ IF w > h
               THEN (new_h - 1) * w <= CanvasSide * h /\ CanvasSide * h <= (new_h + 1) * w
               ELSE (new_w - 1) * h <= CanvasSide * w /\ CanvasSide * w <= (new_w + 1) * h
            /\ ret.off = <<(CanvasSide - new_w) \div 2, (CanvasSide - new_h) \div 2>>
            /\ ret.ok
            /\ ret.img.size = <<CanvasSide, CanvasSide>>
            /\ arg.size = <<300, 600>> =>
                   /\ ret.new = <<256, 512>>
                   /\ ret.img.box = <<128, 0, 256, 512>>
                   /\ ret.img.outer = Transparent

(***************************************************************************)
(* The recolouring functions on their own.                                 *)
(***************************************************************************)
\* the channel values enumerated: near 0, the middle, near 255
Chan == (0..Edge) \cup {128} \cup ((255 - Edge)..255)

White == <<"#","F","F","F","F","F","F">>
Black == <<"#","0","0","0","0","0","0">>

BlendInit ==
    /\ Idle
    /\ pc = "call"
    /\ arg \in {[img |-> Solid(<<1, 1>>, <<r, g, b, a>>), hex |-> x, mode |-> m] :
                  r \in Chan, g \in Chan, b \in Chan, a \in Chan,
                  x \in {White, Black, <<"#","F","F","8","0","0","0">>},
                  m \in {Screen, Multiply, <<"x">>}}
    /\ ret = <<>>

Overlay ==
    /\ pc = "call"
    /\ ret' = overlay_blend(arg.img, arg.hex, arg.mode)
    /\ pc' = "returned"
    /\ UNCHANGED <<idleVars, arg>>

BlendNext == Overlay

SpecBlend == BlendInit /\ [][BlendNext]_vars

\* C6: multiply with #FFFFFF returns the source unchanged in all four
\* channels, and so does screen with #000000, pixels of alpha below 255
\* included.
C6_OverlayIdentity ==
    pc = "returned" =>
        /\ (arg.mode = Multiply /\ arg.hex = White) => (ret.ok /\ ret.img = arg.img)
        /\ (arg.mode = Screen /\ arg.hex = Black) => (ret.ok /\ ret.img = arg.img)

HexBytes == {<<"0","0">>, <<"8","0">>, <<"F","F">>}
HueTargets == {<<"#">> \o r \o g \o b : r \in HexBytes, g \in HexBytes, b \in {<<"0","0">>, <<"F","F">>}}
HueMultipliers == {<<<<1, 1>>, <<1, 1>>>>, <<<<1, 2>>, <<1, 1>>>>, <<<<1, 1>>, <<2, 1>>>>}

HueInit ==
    /\ Idle
    /\ pc = "call"
    /\ arg \in {[img |-> Solid(<<1, 1>>, <<r, g, b, a>>), hex |-> x, sat |-> m[1], val |-> m[2]] :
                  r \in Chan, g \in Chan, b \in Chan, a \in {128, 255}, x \in HueTargets,
                  m \in HueMultipliers}
    /\ ret = <<>>

HueShift ==
    /\ pc = "call"
    /\ \E l1 \in BOOLEAN, l2 \in BOOLEAN, l3 \in BOOLEAN :
           ret' = hue_shift_saturation(arg.img, arg.hex, arg.sat, arg.val, <<l1, l2, l3>>)
    /\ pc' = "returned"
    /\ UNCHANGED <<idleVars, arg>>

HueNext == HueShift

SpecHue == HueInit /\ [][HueNext]_vars

Rgb(px) == <<px[1], px[2], px[3]>>
Within1(a, b) == a - b <= 1 /\ b - a <= 1

\* C8: with both multipliers 1.0, hue_shift_saturation leaves the alpha of
\* every pixel as it was (of an opaque buffer, and of any other), and the
\* largest and the smallest channel of an opaque pixel, from which its value
\* and its saturation are computed, within one 8-bit step of what they were.
C8_HueLockKeepsSatValAlpha ==
    (pc = "returned" /\ arg.sat = <<1, 1>> /\ arg.val = <<1, 1>>) =>
        /\ ret.ok
        /\ ret.img.size = arg.img.size
        /\ ret.img.inner[4] = arg.img.inner[4]
        /\ arg.img.inner[4] = 255 =>
               /\ Within1(Max3(Rgb(ret.img.inner)), Max3(Rgb(arg.img.inner)))
               /\ Within1(Min3(Rgb(ret.img.inner)), Min3(Rgb(arg.img.inner)))

\* C8 witness: opaque red recoloured towards #00FF00 is opaque green, its hue
\* changed and nothing else
C8_Witness ==
    /\ pc = "returned"
    /\ arg.sat = <<1, 1>> /\ arg.val = <<1, 1>>
    /\ arg.hex = <<"#","0","0","F","F","0","0">>
    /\ arg.img.inner = <<255, 0, 0, 255>>
    /\ ret.img.inner = <<0, 255, 0, 255>>

====
